---- MODULE Spec2Model ----
(***************************************************************************)
(* helpmate (JEE Study Buddy): the quiz lifecycle kept in the Streamlit    *)
(* session state, the parser of the generative model's output, the topic   *)
(* performance ledger, the streak tracker and the bookmark store.          *)
(*                                                                         *)
(* Python values are modelled as follows.  A dict is a function whose      *)
(* DOMAIN is the set of keys present.  None is the empty sequence and a    *)
(* value that may be None is a one-element sequence (None / Some).  A JSON *)
(* value is a record tagged with its Python type.  A text is a sequence of *)
(* tokens; list and string indices are 0-based as in the source and are    *)
(* shifted by one where a TLA+ sequence is read.                           *)
(***************************************************************************)
EXTENDS Integers, Sequences, FiniteSets, TLC

VARIABLES
    quiz_questions,          \* st.session_state.quiz_questions
    current_question,        \* st.session_state.current_question (the cursor)
    showing_quiz,            \* st.session_state.showing_quiz
    score,                   \* st.session_state.score
    answered_questions,      \* st.session_state.answered_questions
    total_questions_solved,  \* st.session_state.total_questions_solved
    total_correct_answers,   \* st.session_state.total_correct_answers
    topics_covered,          \* st.session_state.topics_covered
    current_streak,          \* st.session_state.current_streak
    last_quiz_date,          \* st.session_state.last_quiz_date
    streak_history,          \* st.session_state.streak_history
    topic_performance,       \* st.session_state.topic_performance
    current_quiz_main_topic, \* st.session_state.current_quiz_main_topic
    bookmarked_questions,    \* st.session_state.bookmarked_questions
    today,                   \* datetime.now().date(), as a day number
    provider_response,       \* the raw outcome of model.generate_content
    quiz_result,             \* what generate_quiz handed to its caller
    pdf_result               \* what analyze_test_results handed to its caller

vars == <<quiz_questions, current_question, showing_quiz, score,
          answered_questions, total_questions_solved, total_correct_answers,
          topics_covered, current_streak, last_quiz_date, streak_history,
          topic_performance, current_quiz_main_topic, bookmarked_questions,
          today, provider_response, quiz_result, pdf_result>>

sessionVars == <<quiz_questions, current_question, showing_quiz, score,
                 answered_questions, current_quiz_main_topic>>
statsVars == <<total_questions_solved, total_correct_answers, topics_covered,
               topic_performance>>
streakVars == <<current_streak, last_quiz_date, streak_history>>
parserVars == <<provider_response, quiz_result, pdf_result>>

(***************************************************************************)
(* Bounds of the model.                                                    *)
(***************************************************************************)
MaxQuestions == 2      \* elements of a generated array
MaxNoise == 1          \* tokens of commentary before and after the array
MaxGarbage == 2        \* length of an arbitrary token text
MaxDay == 3            \* calendar days the clock runs through
MaxSolved == 2         \* cap on the solved counters and ledger totals
MaxBookmarks == 2      \* cap on the BookmarkStore's length
MaxPdfItems == 1       \* question_analysis items of one document

(***************************************************************************)
(* Python helpers.                                                         *)
(***************************************************************************)
None == <<>>
Some(x) == <<x>>
EmptyDict == <<>>

\* dict.get(k, default)
Get(d, k, default) == IF k \in DOMAIN d THEN d[k] ELSE default

\* d[k] = v
Put(d, k, v) == [x \in DOMAIN d \cup {k} |-> IF x = k THEN v ELSE d[x]]

\* dict.setdefault(k, v): the dict afterwards
setdefault(d, k, v) == IF k \in DOMAIN d THEN d ELSE Put(d, k, v)

\* JSON values as json.loads builds them
JDict(d) == [type |-> "dict", d |-> d]
JStr(s) == [type |-> "str", s |-> s]
JInt(n) == [type |-> "int", n |-> n]
JList(items) == [type |-> "list", items |-> items]
JNull == [type |-> "null"]

RECURSIVE SeqsUpTo(_, _)
SeqsUpTo(S, n) ==
    IF n = 0 THEN {<<>>}
    ELSE LET shorter == SeqsUpTo(S, n - 1)
         IN  shorter \cup {Append(s, x) : s \in {t \in shorter : Len(t) = n - 1}, x \in S}

(***************************************************************************)
(* Texts.  A text is a sequence of tokens: brackets, commas, white space,  *)
(* the two markdown fence markers, a word of prose, or one JSON value      *)
(* (a question object, a number) written out.                              *)
(***************************************************************************)
Tok(t) == [t |-> t]
ValTok(v) == [t |-> "val", v |-> v]

LBracket == Tok("[")
RBracket == Tok("]")
Comma == Tok(",")
Space == Tok(" ")
FenceJson == Tok("fence_json")   \* three backticks followed by json
Fence == Tok("fence")            \* three backticks
Word == Tok("word")

\* str.replace(marker, ""): every occurrence of the marker is removed
replace(text, marker) == SelectSeq(text, LAMBDA tok : tok # marker)

RECURSIVE lstrip(_)
lstrip(text) ==
    IF text # <<>> /\ Head(text) = Space THEN lstrip(Tail(text)) ELSE text

RECURSIVE rstrip(_)
rstrip(text) ==
    IF text # <<>> /\ text[Len(text)] = Space
    THEN rstrip(SubSeq(text, 1, Len(text) - 1))
    ELSE text

\* str.strip()
strip(text) == rstrip(lstrip(text))

\* str.find(ch): 0-based index of the first occurrence, -1 if there is none
find(text, tok) ==
    IF \E i \in 1..Len(text) : text[i] = tok
    THEN (CHOOSE i \in 1..Len(text) :
              text[i] = tok /\ \A j \in 1..(i - 1) : text[j] # tok) - 1
    ELSE -1

\* str.rfind(ch): 0-based index of the last occurrence, -1 if there is none
rfind(text, tok) ==
    IF \E i \in 1..Len(text) : text[i] = tok
    THEN (CHOOSE i \in 1..Len(text) :
              text[i] = tok /\ \A j \in (i + 1)..Len(text) : text[j] # tok) - 1
    ELSE -1

\* text[start:end] for 0 <= start
slice(text, start, end) == SubSeq(text, start + 1, end)

(***************************************************************************)
(* json.loads on a token text: a value is a value token or an array of     *)
(* values separated by commas; white space is skipped between tokens; any  *)
(* other token, a trailing comma, a missing bracket or text after the      *)
(* value is a JSONDecodeError.                                             *)
(***************************************************************************)
RECURSIVE skip_ws(_, _)
skip_ws(text, i) ==
    IF i <= Len(text) /\ text[i] = Space THEN skip_ws(text, i + 1) ELSE i

JsonFail == [ok |-> FALSE, v |-> JNull, next |-> 0]

RECURSIVE parse_value(_, _)
RECURSIVE parse_elements(_, _, _)

\* one value starting at position i (1-based), white space skipped first
parse_value(text, i) ==
    LET j == skip_ws(text, i)
    IN  IF j > Len(text) THEN JsonFail
        ELSE IF text[j].t = "val" THEN [ok |-> TRUE, v |-> text[j].v, next |-> j + 1]
        ELSE IF text[j] = LBracket
             THEN LET k == skip_ws(text, j + 1)
                  IN  IF k <= Len(text) /\ text[k] = RBracket
                      THEN [ok |-> TRUE, v |-> JList(<<>>), next |-> k + 1]
                      ELSE parse_elements(text, k, <<>>)
        ELSE JsonFail

\* the elements of an array from position i on, up to its closing bracket
parse_elements(text, i, acc) ==
    LET r == parse_value(text, i)
    IN  IF ~r.ok THEN JsonFail
        ELSE LET k == skip_ws(text, r.next)
             IN  IF k > Len(text) THEN JsonFail
                 ELSE IF text[k] = Comma
                      THEN parse_elements(text, k + 1, Append(acc, r.v))
                 ELSE IF text[k] = RBracket
                      THEN [ok |-> TRUE, v |-> JList(Append(acc, r.v)), next |-> k + 1]
                 ELSE JsonFail

json_loads(text) ==
    LET r == parse_value(text, 1)
    IN  IF r.ok /\ skip_ws(text, r.next) > Len(text)
        THEN [ok |-> TRUE, v |-> r.v]
        ELSE [ok |-> FALSE, v |-> JNull]

(***************************************************************************)
(* generate_quiz                                                           *)
(***************************************************************************)
DefaultSteps == "Explanation not generated. Please refer to solution links."

\* the result of a block of code: a value, or the exception it raised
Returned(v, diag) == [exc |-> "", ret |-> v, diag |-> diag]
Raised(e) == [exc |-> e, ret |-> <<>>, diag |-> ""]

\* the body of the loop over the parsed questions: the three setdefault calls
fill_defaults(question) ==
    IF question.type # "dict" THEN Raised("AttributeError")
    ELSE LET q1 == setdefault(question.d, "explanation", JDict(EmptyDict))
             e == q1["explanation"]
         IN  IF e.type # "dict" THEN Raised("AttributeError")
             ELSE LET e1 == setdefault(e.d, "detailed_steps", JStr(DefaultSteps))
                      e2 == setdefault(e1, "youtube_link", JStr(""))
                  IN  Returned(JDict(Put(q1, "explanation", JDict(e2))), "")

\* the statements inside the try block
generate_quiz_try(response) ==
    IF response.kind = "exception" THEN Raised("ProviderError")
    ELSE
    LET response_text == strip(replace(replace(response.text, FenceJson), Fence))
        json_start == find(response_text, LBracket)
        json_end == rfind(response_text, RBracket) + 1
    IN  IF json_start # -1 /\ json_end # -1 /\ json_end > json_start
        THEN LET parsed == json_loads(slice(response_text, json_start, json_end))
             IN  IF ~parsed.ok THEN Returned(<<>>, "JSON Decode Error")
                 ELSE LET questions == parsed.v.items
                          filled == [i \in 1..Len(questions) |-> fill_defaults(questions[i])]
                      IN  IF questions # <<>>
                          THEN IF \E i \in 1..Len(questions) : filled[i].exc # ""
                               THEN Raised("AttributeError")
                               ELSE Returned([i \in 1..Len(questions) |-> filled[i].ret], "")
                          ELSE Returned(<<>>, "Generated quiz is empty")
        ELSE Returned(<<>>, "Failed to find valid JSON array in response")

\* an except clause that catches the provider's failures only
catches_provider_errors(exc) == exc = "ProviderError"

\* the except clause: which exceptions of the try block it catches
catches_all(exc) == TRUE

\* generate_quiz as its caller sees it
generate_quiz(response) ==
    LET r == generate_quiz_try(response)
    IN  IF r.exc = "" THEN [raised |-> FALSE, ret |-> r.ret, diag |-> r.diag]
        ELSE IF catches_all(r.exc)
             THEN [raised |-> FALSE, ret |-> <<>>, diag |-> "Error generating quiz"]
             ELSE [raised |-> TRUE, ret |-> <<>>, diag |-> ""]

(***************************************************************************)
(* Provider outputs the model draws from.                                  *)
(***************************************************************************)
RawQuestion(text, answers, correct) ==
    ("question" :> text) @@ ("answers" :> answers) @@ ("correctAnswer" :> correct)

FullExplanation ==
    JDict(("detailed_steps" :> JStr("steps")) @@ ("youtube_link" :> JStr("url")))

\* a question with four distinct choices, no explanation given
Q1 == JDict(RawQuestion("Q1", <<"a", "b", "c", "d">>, 1))
\* a question whose first two choices read the same
Q2 == JDict(RawQuestion("Q2", <<"a", "a", "b", "c">>, 1) @@ ("explanation" :> FullExplanation))

QuizObjects == {Q1, Q2}

\* a question object with two choices and a correct index that names none
ShortQuestion == JDict(RawQuestion("Q3", <<"a", "b">>, 5))

RECURSIVE join(_)
join(elements) ==
    IF elements = <<>> THEN <<>>
    ELSE IF Len(elements) = 1 THEN <<ValTok(elements[1])>>
    ELSE <<ValTok(elements[1]), Comma>> \o join(Tail(elements))

\* a JSON array written out
ArrayText(elements) == <<LBracket>> \o join(elements) \o <<RBracket>>

ProviderException == [kind |-> "exception"]
ProviderText(text) == [kind |-> "text", text |-> text]

Topics == {"optics", "kinematics"}
Days == 0..MaxDay

NoResponse == [kind |-> "none"]
NoResult == [raised |-> FALSE, ret |-> <<>>, diag |-> "not called"]
NoAnalysis == [raised |-> FALSE, ret |-> None, diag |-> "not called"]

(***************************************************************************)
(* Initial session state.                                                  *)
(***************************************************************************)
Init ==
    /\ quiz_questions = <<>>
    /\ current_question = 0
    /\ showing_quiz = FALSE
    /\ score = 0
    /\ answered_questions = EmptyDict
    /\ total_questions_solved = 0
    /\ total_correct_answers = 0
    /\ topics_covered = {}
    /\ current_streak = 0
    /\ last_quiz_date = None
    /\ streak_history = EmptyDict
    /\ topic_performance = EmptyDict
    /\ current_quiz_main_topic = ""
    /\ bookmarked_questions = <<>>
    /\ today = 0
    /\ provider_response = NoResponse
    /\ quiz_result = NoResult
    /\ pdf_result = NoAnalysis

(***************************************************************************)
(* TopicPerformanceLedger and StreakTracker, as display_quiz inlines them. *)
(***************************************************************************)
\* one graded event, were the correct count raised without looking at is_correct
record_always_correct(ledger, topic, is_correct) ==
    LET created == IF topic \notin DOMAIN ledger
                   THEN Put(ledger, topic, [total_solved |-> 0, correct_solved |-> 0])
                   ELSE ledger
    IN  Put(created, topic, [total_solved |-> created[topic].total_solved + 1,
                             correct_solved |-> created[topic].correct_solved + 1])

\* one graded event: the entry is created at (0, 0) when missing, then counted
record(ledger, topic, is_correct) ==
    LET created == IF topic \notin DOMAIN ledger
                   THEN Put(ledger, topic, [total_solved |-> 0, correct_solved |-> 0])
                   ELSE ledger
        counted == Put(created, topic,
                       [created[topic] EXCEPT !.total_solved = @ + 1])
    IN  IF is_correct
        THEN Put(counted, topic, [counted[topic] EXCEPT !.correct_solved = @ + 1])
        ELSE counted

\* the streak, were the same-day branch missing
next_streak_same_day_counts(streak, last, day) ==
    IF last # None
    THEN IF day = last[1] + 1 \/ day = last[1] THEN streak + 1
         ELSE 1
    ELSE 1

\* the streak, were any later day taken for the next day
next_streak_any_gap(streak, last, day) ==
    IF last # None
    THEN IF day >= last[1] + 1 THEN streak + 1
         ELSE IF day = last[1] THEN streak
         ELSE 1
    ELSE 1

\* the streak after a completion on `day`, given the last completion date
next_streak(streak, last, day) ==
    IF last # None
    THEN IF day = last[1] + 1 THEN streak + 1
         ELSE IF day = last[1] THEN streak
         ELSE 1
    ELSE 1

\* the completion update, were the day left out of the history
record_completion_unmarked(day) ==
    /\ streak_history' = streak_history
    /\ current_streak' = next_streak(current_streak, last_quiz_date, day)
    /\ last_quiz_date' = Some(day)

\* the completed branch of display_quiz: the streak update made on each run
record_completion(day) ==
    /\ streak_history' = Put(streak_history, day, TRUE)
    /\ current_streak' = next_streak(current_streak, last_quiz_date, day)
    /\ last_quiz_date' = Some(day)

\* one run of display_quiz on the given session: only a completed one writes
display_quiz(showing, questions, cursor) ==
    IF showing /\ questions # <<>> /\ cursor >= Len(questions)
    THEN record_completion(today)
    ELSE UNCHANGED streakVars

(***************************************************************************)
(* AnswerState, read off an answered_questions entry.                      *)
(***************************************************************************)
HasEntry(i) == i \in DOMAIN answered_questions
IsAnswered(info) == "selected_idx" \in DOMAIN info /\ info["selected_idx"] # None
IsSkipped(info) == Get(info, "is_skipped", FALSE)
IsBookmarked(info) == Get(info, "is_bookmarked", FALSE)
Finalized(i) ==
    HasEntry(i) /\ (IsAnswered(answered_questions[i]) \/ IsSkipped(answered_questions[i]))
Unanswered(i) == ~Finalized(i)

InProgress ==
    showing_quiz /\ quiz_questions # <<>> /\ current_question < Len(quiz_questions)
Completed ==
    showing_quiz /\ quiz_questions # <<>> /\ current_question >= Len(quiz_questions)

\* questions[current_q_idx]
question == quiz_questions[current_question + 1].d

\* list.index(value): 0-based index of the first equal element
index(list, value) ==
    (CHOOSE i \in 1..Len(list) :
         list[i] = value /\ \A j \in 1..(i - 1) : list[j] # value) - 1

\* the buttons, were the "selected_idx" test of the bookmarked branch left out
buttons_always_submit ==
    IF ~showing_quiz THEN {}
    ELSE IF quiz_questions = <<>> THEN {"back"}
    ELSE IF current_question >= Len(quiz_questions) THEN {"new_quiz_button"}
    ELSE IF HasEntry(current_question)
         THEN {"bookmark_answered", "submit_after_bookmark", "skip_after_bookmark", "next"}
         ELSE {"bookmark", "submit", "skip"}

\* the buttons, were "Next Question" drawn on the completed quiz as well
buttons_next_when_completed ==
    IF ~showing_quiz THEN {}
    ELSE IF quiz_questions = <<>> THEN {"back"}
    ELSE IF current_question >= Len(quiz_questions) THEN {"new_quiz_button", "next"}
    ELSE IF HasEntry(current_question)
         THEN LET answer_info == answered_questions[current_question]
                  is_skipped == Get(answer_info, "is_skipped", FALSE)
              IN  {"bookmark_answered"}
                  \cup (IF "selected_idx" \notin DOMAIN answer_info /\ ~is_skipped
                        THEN {"submit_after_bookmark", "skip_after_bookmark"}
                        ELSE {})
                  \cup (IF "selected_idx" \in DOMAIN answer_info \/ is_skipped
                        THEN {"next"}
                        ELSE {})
         ELSE {"bookmark", "submit", "skip"}

\* the buttons, were "Next Question" drawn for every question that has an entry
buttons_next_on_any_entry ==
    IF ~showing_quiz THEN {}
    ELSE IF quiz_questions = <<>> THEN {"back"}
    ELSE IF current_question >= Len(quiz_questions) THEN {"new_quiz_button"}
    ELSE IF HasEntry(current_question)
         THEN LET answer_info == answered_questions[current_question]
                  is_skipped == Get(answer_info, "is_skipped", FALSE)
              IN  {"bookmark_answered", "next"}
                  \cup (IF "selected_idx" \notin DOMAIN answer_info /\ ~is_skipped
                        THEN {"submit_after_bookmark", "skip_after_bookmark"}
                        ELSE {})
         ELSE {"bookmark", "submit", "skip"}

\* the buttons display_quiz draws for the current session state
buttons ==
    IF ~showing_quiz THEN {}
    ELSE IF quiz_questions = <<>> THEN {"back"}
    ELSE IF current_question >= Len(quiz_questions) THEN {"new_quiz_button"}
    ELSE IF HasEntry(current_question)
         THEN LET answer_info == answered_questions[current_question]
                  is_skipped == Get(answer_info, "is_skipped", FALSE)
              IN  {"bookmark_answered"}
                  \cup (IF "selected_idx" \notin DOMAIN answer_info /\ ~is_skipped
                        THEN {"submit_after_bookmark", "skip_after_bookmark"}
                        ELSE {})
                  \cup (IF "selected_idx" \in DOMAIN answer_info \/ is_skipped
                        THEN {"next"}
                        ELSE {})
         ELSE {"bookmark", "submit", "skip"}

\* question.copy() tagged with the quiz topic and the question index
question_with_meta ==
    JDict(Put(Put(question, "quiz_topic", current_quiz_main_topic),
              "question_idx", current_question))

\* the store without the entries of the current question text, whatever their topic
without_current_text(store) ==
    SelectSeq(store, LAMBDA q : q.d["question"] # question["question"])

\* the store, were the filter of the unbookmark branch to keep every entry
without_current_keeps_all(store) == store

\* the store without the entries matching the current (question text, topic)
without_current(store) ==
    SelectSeq(store, LAMBDA q :
        ~(q.d["question"] = question["question"]
          /\ q.d["quiz_topic"] = current_quiz_main_topic))

\* the choices the user can select on the radio widget (0-based)
Choices == 0..(Len(question["answers"]) - 1)

(***************************************************************************)
(* display_quiz_generator: the "Generate Quiz" form.                       *)
(***************************************************************************)
\* the form handler, were the quiz view opened whatever generate_quiz returned
GenerateQuiz_shows_always(topic, response) ==
    /\ ~showing_quiz
    /\ \E result \in {generate_quiz(response)} :
           /\ Len(bookmarked_questions) + Len(result.ret) <= MaxBookmarks
           /\ IF topic = "" \/ result.raised
              THEN UNCHANGED <<sessionVars, topics_covered>>
              ELSE /\ quiz_questions' = result.ret
                   /\ showing_quiz' = TRUE
                   /\ current_question' = 0
                   /\ score' = 0
                   /\ answered_questions' = EmptyDict
                   /\ topics_covered' = topics_covered \cup {topic}
                   /\ current_quiz_main_topic' = topic
    /\ UNCHANGED <<total_questions_solved, total_correct_answers, topic_performance,
                   streakVars, bookmarked_questions, today, parserVars>>

\* the form handler, were a failed generation to list the topic as covered
display_quiz_generator_covers_topic(topic, response) ==
    /\ ~showing_quiz
    /\ \E result \in {generate_quiz(response)} :
           /\ Len(bookmarked_questions) + Len(result.ret) <= MaxBookmarks
           /\ IF topic = "" \/ result.raised
              THEN UNCHANGED <<sessionVars, topics_covered>>
              ELSE /\ quiz_questions' = result.ret
                   /\ topics_covered' = topics_covered \cup {topic}
                   /\ IF result.ret # <<>>
                      THEN /\ showing_quiz' = TRUE
                           /\ current_question' = 0
                           /\ score' = 0
                           /\ answered_questions' = EmptyDict
                           /\ current_quiz_main_topic' = topic
                      ELSE UNCHANGED <<showing_quiz, current_question, score,
                                       answered_questions, current_quiz_main_topic>>
    /\ UNCHANGED <<total_questions_solved, total_correct_answers, topic_performance,
                   streakVars, bookmarked_questions, today>>

\* what the form's handler does to the session state
display_quiz_generator(topic, response) ==
    /\ ~showing_quiz
    /\ \E result \in {generate_quiz(response)} :
           /\ Len(bookmarked_questions) + Len(result.ret) <= MaxBookmarks
           /\ IF topic = "" \/ result.raised
              THEN UNCHANGED <<sessionVars, topics_covered>>
              ELSE /\ quiz_questions' = result.ret
                   /\ IF result.ret # <<>>
                      THEN /\ showing_quiz' = TRUE
                           /\ current_question' = 0
                           /\ score' = 0
                           /\ answered_questions' = EmptyDict
                           /\ topics_covered' = topics_covered \cup {topic}
                           /\ current_quiz_main_topic' = topic
                      ELSE UNCHANGED <<showing_quiz, current_question, score,
                                       answered_questions, topics_covered,
                                       current_quiz_main_topic>>
    /\ UNCHANGED <<total_questions_solved, total_correct_answers, topic_performance,
                   streakVars, bookmarked_questions, today>>

\* "Generate Quiz" in the session
GenerateQuiz(topic, response) ==
    /\ display_quiz_generator(topic, response)
    /\ UNCHANGED parserVars

(***************************************************************************)
(* display_quiz: one action per button, each followed by the rerun of the  *)
(* script that st.rerun() starts.                                          *)
(***************************************************************************)
\* "Bookmark Question" on a question with no entry yet
Bookmark ==
    /\ "bookmark" \in buttons
    /\ answered_questions' =
           IF ~HasEntry(current_question)
           THEN Put(answered_questions, current_question, ("is_bookmarked" :> TRUE))
           ELSE Put(answered_questions, current_question,
                    Put(answered_questions[current_question], "is_bookmarked", TRUE))
    /\ bookmarked_questions' = Append(bookmarked_questions, question_with_meta)
    /\ display_quiz(showing_quiz, quiz_questions, current_question)
    /\ UNCHANGED <<quiz_questions, current_question, showing_quiz, score,
                   current_quiz_main_topic, statsVars, today, parserVars>>

\* "Bookmark / Unbookmark Question" on a question that has an entry
ToggleBookmark ==
    /\ "bookmark_answered" \in buttons
    /\ LET answer_info == answered_questions[current_question]
           is_bookmarked == Get(answer_info, "is_bookmarked", FALSE)
       IN  /\ answered_questions' =
                  Put(answered_questions, current_question,
                      Put(answer_info, "is_bookmarked", ~is_bookmarked))
           /\ bookmarked_questions' =
                  IF ~is_bookmarked
                  THEN Append(bookmarked_questions, question_with_meta)
                  ELSE without_current(bookmarked_questions)
    /\ display_quiz(showing_quiz, quiz_questions, current_question)
    /\ UNCHANGED <<quiz_questions, current_question, showing_quiz, score,
                   current_quiz_main_topic, statsVars, today, parserVars>>

\* the counters and the ledger, were every submitted answer to raise the score
Grade_scores_every_answer(is_correct) ==
    /\ total_questions_solved < MaxSolved
    /\ Get(topic_performance, current_quiz_main_topic,
           [total_solved |-> 0, correct_solved |-> 0]).total_solved < MaxSolved
    /\ total_questions_solved' = total_questions_solved + 1
    /\ score' = score + 1
    /\ total_correct_answers' =
           IF is_correct THEN total_correct_answers + 1 ELSE total_correct_answers
    /\ topic_performance' = record(topic_performance, current_quiz_main_topic, is_correct)

\* the counters and the ledger after one graded answer
Grade(is_correct) ==
    /\ total_questions_solved < MaxSolved
    /\ Get(topic_performance, current_quiz_main_topic,
           [total_solved |-> 0, correct_solved |-> 0]).total_solved < MaxSolved
    /\ total_questions_solved' = total_questions_solved + 1
    /\ score' = IF is_correct THEN score + 1 ELSE score
    /\ total_correct_answers' =
           IF is_correct THEN total_correct_answers + 1 ELSE total_correct_answers
    /\ topic_performance' = record(topic_performance, current_quiz_main_topic, is_correct)

\* "Submit Answer" on a question with no entry: the user picked options[choice]
SubmitAnswer(choice) ==
    /\ "submit" \in buttons
    /\ choice \in Choices
    /\ LET options == question["answers"]
           selected_option == options[choice + 1]
           selected_idx == index(options, selected_option)
           is_correct == (selected_idx = question["correctAnswer"])
           is_bookmarked ==
               IF HasEntry(current_question)
               THEN Get(answered_questions[current_question], "is_bookmarked", FALSE)
               ELSE FALSE
       IN  /\ answered_questions' =
                  Put(answered_questions, current_question,
                      ("selected_idx" :> Some(selected_idx))
                      @@ ("is_correct" :> is_correct)
                      @@ ("is_skipped" :> FALSE)
                      @@ ("is_bookmarked" :> is_bookmarked))
           /\ Grade(is_correct)
    /\ display_quiz(showing_quiz, quiz_questions, current_question)
    /\ UNCHANGED <<quiz_questions, current_question, showing_quiz,
                   current_quiz_main_topic, topics_covered, bookmarked_questions,
                   today, parserVars>>

\* the submit on a bookmarked question, were the entry rebuilt without its flag
SubmitAfterBookmark_clears_flag(choice) ==
    /\ "submit_after_bookmark" \in buttons
    /\ choice \in Choices
    /\ LET options == question["answers"]
           selected_option == options[choice + 1]
           selected_idx == index(options, selected_option)
           is_correct == (selected_idx = question["correctAnswer"])
       IN  /\ answered_questions' =
                  Put(answered_questions, current_question,
                      ("selected_idx" :> Some(selected_idx))
                      @@ ("is_correct" :> is_correct)
                      @@ ("is_skipped" :> FALSE)
                      @@ ("is_bookmarked" :> FALSE))
           /\ Grade(is_correct)
    /\ display_quiz(showing_quiz, quiz_questions, current_question)
    /\ UNCHANGED <<quiz_questions, current_question, showing_quiz,
                   current_quiz_main_topic, topics_covered, bookmarked_questions,
                   today, parserVars>>

\* "Submit Answer" on a question that so far was only bookmarked
SubmitAfterBookmark(choice) ==
    /\ "submit_after_bookmark" \in buttons
    /\ choice \in Choices
    /\ LET options == question["answers"]
           selected_option == options[choice + 1]
           selected_idx == index(options, selected_option)
           is_correct == (selected_idx = question["correctAnswer"])
           answer_info == answered_questions[current_question]
       IN  /\ answered_questions' =
                  Put(answered_questions, current_question,
                      Put(Put(Put(answer_info, "selected_idx", Some(selected_idx)),
                              "is_correct", is_correct),
                          "is_skipped", FALSE))
           /\ Grade(is_correct)
    /\ display_quiz(showing_quiz, quiz_questions, current_question)
    /\ UNCHANGED <<quiz_questions, current_question, showing_quiz,
                   current_quiz_main_topic, topics_covered, bookmarked_questions,
                   today, parserVars>>

\* "Skip Question", were a skipped question counted as solved
SkipQuestion_counts_solved ==
    /\ "skip" \in buttons
    /\ total_questions_solved < MaxSolved
    /\ answered_questions' =
           Put(answered_questions, current_question,
               ("selected_idx" :> None)
               @@ ("is_correct" :> FALSE)
               @@ ("is_skipped" :> TRUE)
               @@ ("is_bookmarked" :> FALSE))
    /\ total_questions_solved' = total_questions_solved + 1
    /\ current_question' = current_question + 1
    /\ display_quiz(showing_quiz, quiz_questions, current_question + 1)
    /\ UNCHANGED <<quiz_questions, showing_quiz, score, current_quiz_main_topic,
                   total_correct_answers, topics_covered, topic_performance,
                   bookmarked_questions, today, parserVars>>

\* "Skip Question" on a question with no entry
SkipQuestion ==
    /\ "skip" \in buttons
    /\ LET is_bookmarked ==
               IF HasEntry(current_question)
               THEN Get(answered_questions[current_question], "is_bookmarked", FALSE)
               ELSE FALSE
       IN  answered_questions' =
               Put(answered_questions, current_question,
                   ("selected_idx" :> None)
                   @@ ("is_correct" :> FALSE)
                   @@ ("is_skipped" :> TRUE)
                   @@ ("is_bookmarked" :> is_bookmarked))
    /\ current_question' = current_question + 1
    /\ display_quiz(showing_quiz, quiz_questions, current_question + 1)
    /\ UNCHANGED <<quiz_questions, showing_quiz, score, current_quiz_main_topic,
                   statsVars, bookmarked_questions, today, parserVars>>

\* the skip of a bookmarked question, were the entry rebuilt without its flag
SkipAfterBookmark_clears_flag ==
    /\ "skip_after_bookmark" \in buttons
    /\ answered_questions' =
           Put(answered_questions, current_question,
               ("selected_idx" :> None)
               @@ ("is_correct" :> FALSE)
               @@ ("is_skipped" :> TRUE)
               @@ ("is_bookmarked" :> FALSE))
    /\ current_question' = current_question + 1
    /\ display_quiz(showing_quiz, quiz_questions, current_question + 1)
    /\ UNCHANGED <<quiz_questions, showing_quiz, score, current_quiz_main_topic,
                   statsVars, bookmarked_questions, today, parserVars>>

\* the skip of a bookmarked question, were it to wait for "Next Question"
SkipAfterBookmark_no_advance ==
    /\ "skip_after_bookmark" \in buttons
    /\ LET answer_info == answered_questions[current_question]
       IN  answered_questions' =
               Put(answered_questions, current_question,
                   Put(Put(Put(answer_info, "selected_idx", None),
                           "is_correct", FALSE),
                       "is_skipped", TRUE))
    /\ display_quiz(showing_quiz, quiz_questions, current_question)
    /\ UNCHANGED <<quiz_questions, current_question, showing_quiz, score,
                   current_quiz_main_topic, statsVars, bookmarked_questions, today,
                   parserVars>>

\* "Skip Question" on a question that so far was only bookmarked
SkipAfterBookmark ==
    /\ "skip_after_bookmark" \in buttons
    /\ LET answer_info == answered_questions[current_question]
       IN  answered_questions' =
               Put(answered_questions, current_question,
                   Put(Put(Put(answer_info, "selected_idx", None),
                           "is_correct", FALSE),
                       "is_skipped", TRUE))
    /\ current_question' = current_question + 1
    /\ display_quiz(showing_quiz, quiz_questions, current_question + 1)
    /\ UNCHANGED <<quiz_questions, showing_quiz, score, current_quiz_main_topic,
                   statsVars, bookmarked_questions, today, parserVars>>

\* "Next Question"
NextQuestion ==
    /\ "next" \in buttons
    /\ current_question' = current_question + 1
    /\ display_quiz(showing_quiz, quiz_questions, current_question + 1)
    /\ UNCHANGED <<quiz_questions, showing_quiz, score, answered_questions,
                   current_quiz_main_topic, statsVars, bookmarked_questions,
                   today, parserVars>>

\* "Start New Quiz", were it to drop the bookmarks with the session
StartNewQuiz_clears_bookmarks ==
    /\ "new_quiz_button" \in buttons
    /\ display_quiz(showing_quiz, quiz_questions, current_question)
    /\ showing_quiz' = FALSE
    /\ quiz_questions' = <<>>
    /\ current_question' = 0
    /\ score' = 0
    /\ answered_questions' = EmptyDict
    /\ bookmarked_questions' = <<>>
    /\ UNCHANGED <<current_quiz_main_topic, statsVars, today, parserVars>>

\* "Start New Quiz": the run that handles the click shows the completed quiz first
StartNewQuiz ==
    /\ "new_quiz_button" \in buttons
    /\ display_quiz(showing_quiz, quiz_questions, current_question)
    /\ showing_quiz' = FALSE
    /\ quiz_questions' = <<>>
    /\ current_question' = 0
    /\ score' = 0
    /\ answered_questions' = EmptyDict
    /\ UNCHANGED <<current_quiz_main_topic, statsVars, bookmarked_questions,
                   today, parserVars>>

\* any other run of the script while the quiz page is shown
RenderQuiz ==
    /\ showing_quiz
    /\ display_quiz(showing_quiz, quiz_questions, current_question)
    /\ UNCHANGED <<sessionVars, statsVars, bookmarked_questions, today, parserVars>>

\* midnight passes
NextDay ==
    /\ today < MaxDay
    /\ today' = today + 1
    /\ UNCHANGED <<sessionVars, statsVars, streakVars, bookmarked_questions, parserVars>>

(***************************************************************************)
(* pdf_analyze: analyze_test_results and the "Analyze Test Results" button.*)
(***************************************************************************)
LBrace == Tok("{")
RBrace == Tok("}")
NotDeterminable == JStr("not determinable")

\* json.loads on the candidate of an analysis: one object between braces
json_loads_object(text) ==
    LET i == skip_ws(text, 1)
        j == skip_ws(text, i + 1)
        k == skip_ws(text, j + 1)
    IN  IF /\ k <= Len(text)
           /\ text[i] = LBrace
           /\ text[j].t = "val"
           /\ text[k] = RBrace
           /\ skip_ws(text, k + 1) > Len(text)
        THEN [ok |-> TRUE, v |-> text[j].v]
        ELSE [ok |-> FALSE, v |-> JNull]

\* analyze_test_results as its caller sees it: ret is None or the parsed dict
analyze_test_results(response) ==
    IF response.kind = "exception"
    THEN \* the except clause formats response_text, which was never assigned
         [raised |-> TRUE, ret |-> None, diag |-> ""]
    ELSE
    LET unfenced_start == IF response.text # <<>> /\ Head(response.text) = FenceJson
                          THEN Tail(response.text) ELSE response.text
        unfenced_end == IF unfenced_start # <<>> /\ unfenced_start[Len(unfenced_start)] = Fence
                        THEN SubSeq(unfenced_start, 1, Len(unfenced_start) - 1)
                        ELSE unfenced_start
        response_text == strip(unfenced_end)
        json_start == find(response_text, LBrace)
        json_end == rfind(response_text, RBrace) + 1
    IN  IF json_start # -1 /\ json_end # -1 /\ json_end > json_start
        THEN LET parsed == json_loads_object(slice(response_text, json_start, json_end))
             IN  IF parsed.ok
                 THEN [raised |-> FALSE, ret |-> Some(parsed.v), diag |-> ""]
                 ELSE [raised |-> FALSE, ret |-> None,
                       diag |-> "JSON Decode Error analyzing test results"]
        ELSE [raised |-> FALSE, ret |-> None,
              diag |-> "Failed to parse analysis data from LLM"]

\* the body of the loop over question_analysis
record_item(ledger, q_analysis) ==
    LET topic == q_analysis.topic
        is_correct == q_analysis.is_correct
    IN  IF topic # "" THEN record(ledger, topic, is_correct) ELSE ledger

RECURSIVE record_items(_, _)
record_items(ledger, items) ==
    IF items = <<>> THEN ledger
    ELSE record_items(record_item(ledger, Head(items)), Tail(items))

\* the analyses the provider returns in the session model
PdfItems ==
    {[topic |-> t, is_correct |-> b] : t \in Topics, b \in BOOLEAN}
    \cup {[topic |-> "", is_correct |-> TRUE]}

\* the question_analysis lists of one document
PdfItemLists == SeqsUpTo(PdfItems, MaxPdfItems)

PdfAnalysis(items, total_known, correct_known) ==
    JDict(("analysis" :>
              [total_questions |->
                   IF total_known THEN JInt(Len(items)) ELSE NotDeterminable,
               correct_answers |->
                   IF correct_known
                   THEN JInt(Len(SelectSeq(items, LAMBDA it : it.is_correct)))
                   ELSE NotDeterminable])
          @@ ("question_analysis" :> items)
          @@ ("weak_topics" :>
                  SelectSeq([i \in 1..Len(items) |-> items[i].topic],
                            LAMBDA t : \E i \in 1..Len(items) :
                                items[i].topic = t /\ ~items[i].is_correct)))

PdfResponses ==
    {ProviderException, ProviderText(<<Word>>)}
    \cup {ProviderText(<<LBrace, ValTok(PdfAnalysis(items, tk, ck)), RBrace>>) :
              items \in PdfItemLists, tk \in BOOLEAN, ck \in BOOLEAN}

\* what the button's handler does to the counters, the ledger and the topics
display_pdf_analyzer(response) ==
    \E result \in {analyze_test_results(response)} :
           IF result.raised \/ result.ret = None
           THEN UNCHANGED statsVars
           ELSE LET analysis_result == result.ret[1].d
                    analysis == analysis_result["analysis"]
                    question_analysis_list == Get(analysis_result, "question_analysis", <<>>)
                    weak_topics == Get(analysis_result, "weak_topics", <<>>)
                IN  /\ total_questions_solved' =
                           IF analysis.total_questions # NotDeterminable
                           THEN total_questions_solved + analysis.total_questions.n
                           ELSE total_questions_solved
                    /\ total_questions_solved' <= MaxSolved
                    /\ total_correct_answers' =
                           IF analysis.correct_answers # NotDeterminable
                           THEN total_correct_answers + analysis.correct_answers.n
                           ELSE total_correct_answers
                    /\ total_correct_answers' <= MaxSolved
                    /\ topic_performance' =
                           record_items(topic_performance, question_analysis_list)
                    /\ topics_covered' =
                           topics_covered \cup {weak_topics[i] : i \in 1..Len(weak_topics)}
                    /\ \A t \in DOMAIN topic_performance' :
                           topic_performance'[t].total_solved <= MaxSolved

\* "Analyze Test Results" in the session
AnalyzePdf(response) ==
    /\ display_pdf_analyzer(response)
    /\ UNCHANGED <<sessionVars, streakVars, bookmarked_questions, today, parserVars>>

(***************************************************************************)
(* profile_module: "Remove Bookmark n".                                    *)
(***************************************************************************)
\* list.remove(x): the list without the first element equal to x
remove(list, x) ==
    LET first == index(list, x) + 1
    IN  SubSeq(list, 1, first - 1) \o SubSeq(list, first + 1, Len(list))

RemoveBookmark(idx) ==
    /\ idx \in 0..(Len(bookmarked_questions) - 1)
    /\ bookmarked_questions' = remove(bookmarked_questions, bookmarked_questions[idx + 1])
    /\ UNCHANGED <<sessionVars, statsVars, streakVars, today, parserVars>>

(***************************************************************************)
(* main: "Clear All App Data & Restart".                                   *)
(***************************************************************************)
ClearAllData ==
    /\ quiz_questions' = <<>>
    /\ current_question' = 0
    /\ showing_quiz' = FALSE
    /\ score' = 0
    /\ answered_questions' = EmptyDict
    /\ total_questions_solved' = 0
    /\ total_correct_answers' = 0
    /\ topics_covered' = {}
    /\ current_streak' = 0
    /\ last_quiz_date' = None
    /\ streak_history' = EmptyDict
    /\ topic_performance' = EmptyDict
    /\ current_quiz_main_topic' = ""
    /\ bookmarked_questions' = <<>>
    /\ UNCHANGED <<today, parserVars>>

(***************************************************************************)
(* The session: every handler the user can trigger.                        *)
(***************************************************************************)
Generate(topics, objects, n) ==
    \E topic \in topics, es \in SeqsUpTo(objects, n) :
        \/ GenerateQuiz(topic, ProviderText(ArrayText(es)))
        \/ GenerateQuiz(topic, ProviderException)
        \/ GenerateQuiz(topic, ProviderText(<<Word>>))

Submit == \E choice \in 0..3 : SubmitAnswer(choice) \/ SubmitAfterBookmark(choice)

Next ==
    \/ Generate(Topics \cup {""}, QuizObjects, MaxQuestions)
    \/ Bookmark
    \/ ToggleBookmark
    \/ Submit
    \/ SkipQuestion
    \/ SkipAfterBookmark
    \/ NextQuestion
    \/ StartNewQuiz
    \/ RenderQuiz
    \/ NextDay
    \/ \E response \in PdfResponses : AnalyzePdf(response)
    \/ \E idx \in 0..(MaxBookmarks - 1) : RemoveBookmark(idx)
    \/ ClearAllData

Spec == Init /\ [][Next]_vars

(***************************************************************************)
(* Slices of the session.  The streak variables are read and written only  *)
(* by the completed branch of display_quiz and by ClearAllData, the        *)
(* BookmarkStore only by the bookmark handlers, and the clock is read only *)
(* by the completed branch; each slice keeps the handlers that read or     *)
(* write the state its properties are about and leaves the others out.     *)
(***************************************************************************)
\* the quiz with its bookmarks, on one day
NextSession ==
    \/ Generate({"optics", ""}, QuizObjects, MaxQuestions)
    \/ Generate({"kinematics"}, {Q1}, 1)
    \/ Bookmark
    \/ ToggleBookmark
    \/ Submit
    \/ SkipQuestion
    \/ SkipAfterBookmark
    \/ NextQuestion
    \/ StartNewQuiz
    \/ RenderQuiz
    \/ \E idx \in 0..(MaxBookmarks - 1) : RemoveBookmark(idx)
    \/ ClearAllData

SpecSession == Init /\ [][NextSession]_vars

\* quizzes completed over several days, without bookmarks
NextStreak ==
    \/ Generate({"optics"}, {Q1}, MaxQuestions)
    \/ \E choice \in 0..3 : SubmitAnswer(choice)
    \/ SkipQuestion
    \/ NextQuestion
    \/ StartNewQuiz
    \/ RenderQuiz
    \/ NextDay
    \/ ClearAllData

SpecStreak == Init /\ [][NextStreak]_vars

\* graded answers from quizzes and from analysed documents
NextLedger ==
    \/ Generate(Topics, {Q1}, 1)
    \/ \E choice \in 0..3 : SubmitAnswer(choice)
    \/ SkipQuestion
    \/ NextQuestion
    \/ StartNewQuiz
    \/ \E response \in PdfResponses : AnalyzePdf(response)
    \/ ClearAllData

SpecLedger == Init /\ [][NextLedger]_vars

(***************************************************************************)
(* generate_quiz on its own, over a larger set of provider outputs.        *)
(***************************************************************************)
WithExplanation(q, e) == JDict(Put(q.d, "explanation", e))

ParserElements ==
    { Q1,
      Q2,
      WithExplanation(Q1, JDict(("youtube_link" :> JStr("url")))),
      WithExplanation(Q1, JDict(("detailed_steps" :> JStr("steps")))),
      WithExplanation(Q1, JStr("free text")),
      WithExplanation(Q1, JNull),
      ShortQuestion,
      JInt(7) }

NoiseTokens == {Word, Space, FenceJson, Fence, LBracket, RBracket}

\* commentary around an array: at most MaxNoise tokens before and after it
NoisePairs ==
    {p \in SeqsUpTo(NoiseTokens, MaxNoise) \X SeqsUpTo(NoiseTokens, MaxNoise) :
         Len(p[1]) + Len(p[2]) <= MaxNoise}

ParserArrays == {ArrayText(es) : es \in SeqsUpTo(ParserElements, MaxQuestions)}

ParserTexts ==
    {p[1] \o a \o p[2] : p \in NoisePairs, a \in ParserArrays}
    \cup {<<Word, Space, FenceJson, Space>> \o a \o <<Space, Fence>> : a \in ParserArrays}
    \cup {SubSeq(a, 1, Len(a) - 1) : a \in ParserArrays}
    \cup SeqsUpTo(NoiseTokens \cup {Comma, ValTok(Q1), ValTok(JInt(7))}, MaxGarbage)

ParserResponses == {ProviderException} \cup {ProviderText(t) : t \in ParserTexts}

InitParser ==
    /\ quiz_questions = <<>>
    /\ current_question = 0
    /\ showing_quiz = FALSE
    /\ score = 0
    /\ answered_questions = EmptyDict
    /\ total_questions_solved = 0
    /\ total_correct_answers = 0
    /\ topics_covered = {}
    /\ current_streak = 0
    /\ last_quiz_date = None
    /\ streak_history = EmptyDict
    /\ topic_performance = EmptyDict
    /\ current_quiz_main_topic = ""
    /\ bookmarked_questions = <<>>
    /\ today = 0
    /\ provider_response \in ParserResponses
    /\ quiz_result = NoResult
    /\ pdf_result = NoAnalysis

\* the call of generate_quiz on the response received
CallGenerateQuiz ==
    /\ quiz_result = NoResult
    /\ quiz_result' = generate_quiz(provider_response)
    /\ UNCHANGED <<sessionVars, statsVars, streakVars, bookmarked_questions, today,
                   provider_response, pdf_result>>

NextParser == CallGenerateQuiz

SpecParser == InitParser /\ [][NextParser]_vars

(***************************************************************************)
(* Properties.                                                             *)
(***************************************************************************)
Indices == 0..(Len(quiz_questions) - 1)

\* question i is given an answer in this step
BecomesAnswered(i) ==
    /\ Unanswered(i)
    /\ i \in DOMAIN answered_questions'
    /\ IsAnswered(answered_questions'[i])

\* question i is skipped in this step
BecomesSkipped(i) ==
    /\ Unanswered(i)
    /\ i \in DOMAIN answered_questions'
    /\ IsSkipped(answered_questions'[i])

\* C1: submit on an unanswered question (bookmarked-only included) sets its
\* state to exactly answered(choice, choice = correct index), where choice is
\* the index of the choice the user selected, and adds exactly 1 to the
\* total-solved counter.
C1_SubmitRecordsSelectedChoice ==
    [][\A choice \in 0..3 :
          (SubmitAnswer(choice) \/ SubmitAfterBookmark(choice)) =>
              /\ answered_questions'[current_question]["selected_idx"] = Some(choice)
              /\ answered_questions'[current_question]["is_correct"]
                     = (choice = question["correctAnswer"])
              /\ answered_questions'[current_question]["is_skipped"] = FALSE
              /\ total_questions_solved' = total_questions_solved + 1]_vars

\* C2: while the current question is answered or skipped, display_quiz offers
\* neither submit nor skip: no such transition exists, so the answer state,
\* score, cursor, counters and ledger cannot be changed by one.
C2_NoSubmitOrSkipOnFinalized ==
    (InProgress /\ Finalized(current_question)) =>
        /\ buttons \cap {"submit", "skip", "submit_after_bookmark",
                         "skip_after_bookmark"} = {}
        /\ ~ENABLED (Submit \/ SkipQuestion \/ SkipAfterBookmark)

C2_Witness ==
    /\ InProgress
    /\ Finalized(current_question)
    /\ IsAnswered(answered_questions[current_question])
    /\ total_questions_solved < MaxSolved

\* C3: a step that skips a question moves the cursor forward by exactly 1,
\* and a step that answers a question leaves the cursor where it is, for a
\* fresh question and for one that was bookmarked first.
C3_SkipAdvancesSubmitStays ==
    [][\A i \in Indices :
          /\ BecomesSkipped(i) =>
                 i = current_question /\ current_question' = current_question + 1
          /\ BecomesAnswered(i) =>
                 i = current_question /\ current_question' = current_question]_vars

C3_Witness ==
    /\ showing_quiz
    /\ current_question = 2
    /\ DOMAIN answered_questions = {0, 1}
    /\ IsSkipped(answered_questions[0]) /\ ~IsBookmarked(answered_questions[0])
    /\ IsSkipped(answered_questions[1]) /\ IsBookmarked(answered_questions[1])

\* a step in which the completed branch of display_quiz runs
CompletionStep ==
    \/ Completed /\ RenderQuiz
    \/ StartNewQuiz
    \/ (NextQuestion \/ SkipQuestion \/ SkipAfterBookmark) /\ Completed'

\* C4: for a session that reached cursor = N the completion update is made
\* exactly once: while that completed session stays on screen, on the same
\* day or a later one, the streak, the history and the last completion date
\* do not change again.
C4_CompletionRecordedOnce ==
    [][(Completed /\ Completed') => UNCHANGED streakVars]_vars

\* C5: a completion recorded on the date of the most recent prior completion
\* leaves CurrentStreak and StreakHistory unchanged, however often repeated.
C5_SameDayCompletionIdempotent ==
    [][(CompletionStep /\ last_quiz_date = Some(today)) =>
           UNCHANGED <<current_streak, streak_history>>]_vars

\* a second session completed on the day of the first one
C5_Witness ==
    /\ Completed
    /\ Len(quiz_questions) = 1
    /\ total_questions_solved = 2
    /\ today = 0
    /\ last_quiz_date = Some(0)
    /\ current_streak = 1
    /\ DOMAIN streak_history = {0}

\* C6: a completion on day d makes CurrentStreak 1 when there was none
\* before, adds 1 when the last completion was on d-1, and makes it 1 when
\* the last completion was 2 or more days before d; completions on d, d+1
\* and d+3 give the streaks 1, 2, 1.
C6_StreakByGap ==
    /\ [][CompletionStep =>
             /\ last_quiz_date = None => current_streak' = 1
             /\ (last_quiz_date # None /\ last_quiz_date[1] = today - 1) =>
                    current_streak' = current_streak + 1
             /\ (last_quiz_date # None /\ last_quiz_date[1] <= today - 2) =>
                    current_streak' = 1]_vars
    /\ [](\A d \in Days :
             /\ DOMAIN streak_history = {d} => current_streak = 1
             /\ DOMAIN streak_history = {d, d + 1} => current_streak = 2
             /\ DOMAIN streak_history = {d, d + 1, d + 3} => current_streak = 1)

C6_Witness ==
    /\ DOMAIN streak_history = {0, 1, 3}
    /\ last_quiz_date = Some(3)
    /\ current_streak = 1

\* the text between the first "[" and the last "]" of the text without its
\* fence markers and outer white space; <<>> when there is no such pair
Candidate(text) ==
    LET cleaned == strip(SelectSeq(text, LAMBDA tok : tok \notin {FenceJson, Fence}))
        opening == {i \in 1..Len(cleaned) : cleaned[i] = LBracket}
        closing == {i \in 1..Len(cleaned) : cleaned[i] = RBracket}
    IN  IF opening = {} \/ closing = {} THEN <<>>
        ELSE LET first == CHOOSE i \in opening : \A j \in opening : i <= j
                 last == CHOOSE i \in closing : \A j \in closing : j <= i
             IN  IF first < last THEN SubSeq(cleaned, first, last) ELSE <<>>

Called == quiz_result # NoResult

\* the candidate of the response is a JSON array
ParsesAsArray ==
    /\ provider_response.kind = "text"
    /\ Candidate(provider_response.text) # <<>>
    /\ json_loads(Candidate(provider_response.text)).ok

ParsedElements == json_loads(Candidate(provider_response.text)).v.items

\* C7: generate_quiz never raises to its caller, and it returns the empty
\* sequence when the provider raised, when the text has no "[" or no "]"
\* after it, when the candidate is not valid JSON, when an element of the
\* array is not an object, and when the array is empty.
C7_GenerateQuizNeverRaises ==
    Called =>
        /\ ~quiz_result.raised
        /\ (\/ provider_response.kind = "exception"
            \/ Candidate(provider_response.text) = <<>>
            \/ ~ParsesAsArray
            \/ ParsedElements = <<>>
            \/ \E i \in 1..Len(ParsedElements) : ParsedElements[i].type # "dict")
           => quiz_result.ret = <<>>

\* an array with an element that is no object was received and answered
C7_Witness ==
    /\ Called
    /\ ParsesAsArray
    /\ Len(ParsedElements) = 2
    /\ ParsedElements[1].type = "dict"
    /\ ParsedElements[2].type = "int"
    /\ ~quiz_result.raised
    /\ quiz_result.ret = <<>>

\* C8: when the candidate parses as a JSON array of question objects, every
\* element is returned, in the order of the array, also when an element's
\* explanation is absent, lacks detailed_steps or youtube_link, or is a single
\* free-text value.
C8_EveryQuestionObjectReturned ==
    (/\ Called
     /\ ParsesAsArray
     /\ \A i \in 1..Len(ParsedElements) :
            /\ ParsedElements[i].type = "dict"
            /\ "explanation" \in DOMAIN ParsedElements[i].d =>
                   ParsedElements[i].d["explanation"].type \in {"dict", "str"})
    => /\ Len(quiz_result.ret) = Len(ParsedElements)
       /\ \A i \in 1..Len(ParsedElements) :
              /\ quiz_result.ret[i].d["question"] = ParsedElements[i].d["question"]
              /\ quiz_result.ret[i].d["answers"] = ParsedElements[i].d["answers"]
              /\ quiz_result.ret[i].d["correctAnswer"] = ParsedElements[i].d["correctAnswer"]

ZeroEntry == [total_solved |-> 0, correct_solved |-> 0]
EntryOf(ledger, topic) == Get(ledger, topic, ZeroEntry)

\* the items of an analysis that name a topic: the graded events it holds
Graded(items) == SelectSeq(items, LAMBDA it : it.topic # "")

\* the ledger `after` is the ledger `before` plus the graded events `items`
CountsItems(before, after, items) ==
    /\ DOMAIN after = DOMAIN before \cup {items[i].topic : i \in 1..Len(items)}
    /\ \A t \in DOMAIN after :
           /\ after[t].total_solved =
                  EntryOf(before, t).total_solved
                  + Len(SelectSeq(items, LAMBDA it : it.topic = t))
           /\ after[t].correct_solved =
                  EntryOf(before, t).correct_solved
                  + Len(SelectSeq(items, LAMBDA it : it.topic = t /\ it.is_correct))

\* C9: one graded event record(topic, is_correct) adds exactly 1 to the total
\* of that topic and 1 to its correct count iff is_correct, creating the entry
\* at (0, 0) when the topic is unknown, and changes no other entry, in a quiz
\* submit and for each item of a document analysis; record(t, true) then
\* record(t, false) on an unknown topic gives total = 2, correct = 1.
C9_RecordCountsOneEvent ==
    /\ [](\A t \in Topics, b \in BOOLEAN :
             /\ CountsItems(topic_performance, record(topic_performance, t, b),
                            <<[topic |-> t, is_correct |-> b]>>)
             /\ t \notin DOMAIN topic_performance =>
                    record(record(topic_performance, t, TRUE), t, FALSE)[t]
                        = [total_solved |-> 2, correct_solved |-> 1])
    /\ [](\A items \in PdfItemLists :
             CountsItems(topic_performance, record_items(topic_performance, items),
                         Graded(items)))
    /\ [][\A i \in Indices :
             BecomesAnswered(i) =>
                 CountsItems(topic_performance, topic_performance',
                             <<[topic |-> current_quiz_main_topic,
                                is_correct |-> answered_questions'[i]["is_correct"]]>>)]_vars
    /\ [][(/\ topic_performance' # topic_performance
           /\ DOMAIN topic_performance \subseteq DOMAIN topic_performance'
           /\ answered_questions' = answered_questions)
          => \E items \in PdfItemLists :
                 CountsItems(topic_performance, topic_performance', Graded(items))]_vars

\* a wrong quiz answer on optics beside a right one, and an entry that only
\* an analysed document can have made
C9_Witness ==
    /\ showing_quiz
    /\ current_quiz_main_topic = "optics"
    /\ HasEntry(0)
    /\ IsAnswered(answered_questions[0])
    /\ ~answered_questions[0]["is_correct"]
    /\ "optics" \in DOMAIN topic_performance
    /\ topic_performance["optics"] = [total_solved |-> 2, correct_solved |-> 1]
    /\ "kinematics" \in DOMAIN topic_performance
    /\ "kinematics" \notin topics_covered

Flag(answers, i) == i \in DOMAIN answers /\ Get(answers[i], "is_bookmarked", FALSE)

\* C10: while the session is in progress the current question can be
\* bookmarked or unbookmarked in every AnswerState; the step flips its flag;
\* setting the flag appends exactly one snapshot tagged with the quiz topic
\* and the question index, clearing it removes every store entry with the
\* same (question text, quiz topic), and no other question's flag changes.
C10_ToggleBookmark ==
    /\ [](InProgress => ENABLED (Bookmark \/ ToggleBookmark))
    /\ [][(Bookmark \/ ToggleBookmark) =>
              Flag(answered_questions', current_question)
                  # Flag(answered_questions, current_question)]_vars
    /\ [][\A i \in Indices :
              (showing_quiz' /\ Flag(answered_questions', i) # Flag(answered_questions, i)) =>
                  /\ i = current_question
                  /\ \A j \in Indices \ {i} :
                         Flag(answered_questions', j) = Flag(answered_questions, j)
                  /\ IF ~Flag(answered_questions, i)
                     THEN bookmarked_questions' =
                              Append(bookmarked_questions,
                                     JDict(("quiz_topic" :> current_quiz_main_topic)
                                           @@ ("question_idx" :> i)
                                           @@ quiz_questions[i + 1].d))
                     ELSE bookmarked_questions' =
                              SelectSeq(bookmarked_questions, LAMBDA e :
                                  ~(/\ e.d["question"] = quiz_questions[i + 1].d["question"]
                                    /\ e.d["quiz_topic"] = current_quiz_main_topic))]_vars

\* the second question was bookmarked after it was answered, the first one
\* was bookmarked and unbookmarked again
C10_Witness ==
    /\ InProgress
    /\ current_question = 1
    /\ DOMAIN answered_questions = {0, 1}
    /\ IsAnswered(answered_questions[0])
    /\ ~IsBookmarked(answered_questions[0])
    /\ IsAnswered(answered_questions[1])
    /\ IsBookmarked(answered_questions[1])
    /\ Len(bookmarked_questions) = 1
    /\ bookmarked_questions[1].d["question_idx"] = 1
    /\ bookmarked_questions[1].d["quiz_topic"] = current_quiz_main_topic

\* an entry of the store carries the (question text, quiz topic) of the current question
MatchesCurrent(e) ==
    /\ e.d["question"] = question["question"]
    /\ e.d["quiz_topic"] = current_quiz_main_topic

\* the step clears the bookmark flag of the current question
Unbookmarks ==
    /\ InProgress
    /\ Flag(answered_questions, current_question)
    /\ showing_quiz'
    /\ ~Flag(answered_questions', current_question)

\* C11: from an empty BookmarkStore, adding the snapshot of a question and
\* then removing by its (question text, topic) gives the empty store again,
\* and a removal whose (question text, topic) matches no entry leaves the
\* store as it was.
C11_AddThenRemove ==
    /\ [](InProgress =>
             without_current(Append(<<>>, question_with_meta)) = <<>>)
    /\ [][(Unbookmarks /\ bookmarked_questions = <<question_with_meta>>) =>
              bookmarked_questions' = <<>>]_vars
    /\ [][(Unbookmarks /\ \A i \in 1..Len(bookmarked_questions) :
                              ~MatchesCurrent(bookmarked_questions[i])) =>
              bookmarked_questions' = bookmarked_questions]_vars

\* the second question was bookmarked and unbookmarked again while the store
\* held nothing else
C11_Witness ==
    /\ InProgress
    /\ current_question = 1
    /\ HasEntry(1)
    /\ "is_bookmarked" \in DOMAIN answered_questions[1]
    /\ ~IsBookmarked(answered_questions[1])
    /\ Unanswered(1)
    /\ ~IsBookmarked(answered_questions[0])
    /\ bookmarked_questions = <<>>

IsPrefix(s, t) == Len(s) <= Len(t) /\ SubSeq(t, 1, Len(s)) = s

\* C12: a snapshot in the BookmarkStore stays in the store, with every field
\* as it was, through every step that is neither an unbookmark nor a removal:
\* submit, skip, advance, completing the quiz, starting and generating a new
\* quiz leave the store alone, and a bookmark only appends to it.
C12_SnapshotsIndependent ==
    [][(/\ ~Unbookmarks
        /\ ~(\E idx \in 0..(Len(bookmarked_questions) - 1) : RemoveBookmark(idx))
        /\ ~ClearAllData)
       => IsPrefix(bookmarked_questions, bookmarked_questions')]_vars

\* a snapshot taken in a kinematics quiz is still there while a later optics
\* quiz has its first question answered
C12_Witness ==
    /\ InProgress
    /\ current_quiz_main_topic = "optics"
    /\ HasEntry(current_question)
    /\ IsAnswered(answered_questions[current_question])
    /\ Len(bookmarked_questions) = 1
    /\ bookmarked_questions[1].d["quiz_topic"] = "kinematics"
    /\ bookmarked_questions[1].d["question_idx"] = 0

\* C13: the quiz view is shown only with a non-empty question sequence; a
\* generation that opens it starts at cursor 0 with score 0 and no answer
\* states, and an empty result of the parser never opens it.
C13_SessionHasQuestions ==
    /\ [](showing_quiz => Len(quiz_questions) >= 1)
    /\ [][(~showing_quiz /\ showing_quiz') =>
              /\ quiz_questions' # <<>>
              /\ current_question' = 0
              /\ score' = 0
              /\ answered_questions' = EmptyDict]_vars
    /\ [][(~showing_quiz /\ quiz_questions' = <<>>) => ~showing_quiz']_vars

\* a second session just started: the score of the first one is gone
C13_Witness ==
    /\ showing_quiz
    /\ Len(quiz_questions) = 2
    /\ current_question = 0
    /\ score = 0
    /\ answered_questions = EmptyDict
    /\ total_correct_answers = 1

(***************************************************************************)
(* analyze_test_results and its caller on their own, over a larger set of  *)
(* provider outputs.                                                       *)
(***************************************************************************)
PdfNoiseTokens == {Word, Space, FenceJson, Fence, LBrace, RBrace}

PdfNoisePairs ==
    {p \in SeqsUpTo(PdfNoiseTokens, MaxNoise) \X SeqsUpTo(PdfNoiseTokens, MaxNoise) :
         Len(p[1]) + Len(p[2]) <= MaxNoise}

\* an analysis written out as a JSON object
ObjectText(analysis) == <<LBrace, ValTok(analysis), RBrace>>

PdfObjects ==
    {ObjectText(PdfAnalysis(items, tk, ck)) :
         items \in PdfItemLists, tk \in BOOLEAN, ck \in BOOLEAN}

PdfTexts ==
    {p[1] \o o \o p[2] : p \in PdfNoisePairs, o \in PdfObjects}
    \cup {<<FenceJson, Space>> \o o \o <<Space, Fence>> : o \in PdfObjects}
    \cup {SubSeq(o, 1, Len(o) - 1) : o \in PdfObjects}
    \cup SeqsUpTo(PdfNoiseTokens \cup {ValTok(PdfAnalysis(<<>>, TRUE, TRUE))}, MaxGarbage)

PdfParserResponses == {ProviderException} \cup {ProviderText(t) : t \in PdfTexts}

InitPdf ==
    /\ quiz_questions = <<>>
    /\ current_question = 0
    /\ showing_quiz = FALSE
    /\ score = 0
    /\ answered_questions = EmptyDict
    /\ total_questions_solved = 0
    /\ total_correct_answers = 0
    /\ topics_covered = {}
    /\ current_streak = 0
    /\ last_quiz_date = None
    /\ streak_history = EmptyDict
    /\ topic_performance = EmptyDict
    /\ current_quiz_main_topic = ""
    /\ bookmarked_questions = <<>>
    /\ today = 0
    /\ provider_response \in PdfParserResponses
    /\ quiz_result = NoResult
    /\ pdf_result = NoAnalysis

\* "Analyze Test Results" on the response received, the outcome of
\* analyze_test_results kept for inspection
CallAnalyzeTestResults ==
    /\ pdf_result = NoAnalysis
    /\ pdf_result' = analyze_test_results(provider_response)
    /\ display_pdf_analyzer(provider_response)
    /\ UNCHANGED <<sessionVars, streakVars, bookmarked_questions, today,
                   provider_response, quiz_result>>

NextPdf == CallAnalyzeTestResults

SpecPdf == InitPdf /\ [][NextPdf]_vars

\* the text between the first "{" and the last "}" of the text without a
\* leading and a trailing fence marker; <<>> when there is no such pair
PdfCandidate(text) ==
    LET a == IF text # <<>> /\ Head(text) = FenceJson THEN Tail(text) ELSE text
        b == IF a # <<>> /\ a[Len(a)] = Fence THEN SubSeq(a, 1, Len(a) - 1) ELSE a
        cleaned == strip(b)
        opening == {i \in 1..Len(cleaned) : cleaned[i] = LBrace}
        closing == {i \in 1..Len(cleaned) : cleaned[i] = RBrace}
    IN  IF opening = {} \/ closing = {} THEN <<>>
        ELSE LET first == CHOOSE i \in opening : \A j \in opening : i <= j
                 last == CHOOSE i \in closing : \A j \in closing : j <= i
             IN  IF first < last THEN SubSeq(cleaned, first, last) ELSE <<>>

PdfCalled == pdf_result # NoAnalysis

\* C14: analyze_test_results never raises to its caller; when the provider
\* call fails, when the output holds no "{" ... "}" candidate and when the
\* candidate is not valid JSON it returns None with a diagnostic, and the
\* caller leaves total-solved, total-correct, the ledger and topics-covered
\* as they were.
C14_AnalyzeNeverRaises ==
    PdfCalled =>
        /\ ~pdf_result.raised
        /\ (\/ provider_response.kind = "exception"
            \/ PdfCandidate(provider_response.text) = <<>>
            \/ ~json_loads_object(PdfCandidate(provider_response.text)).ok)
           => /\ pdf_result.ret = None
              /\ pdf_result.diag # ""
              /\ total_questions_solved = 0
              /\ total_correct_answers = 0
              /\ topic_performance = EmptyDict
              /\ topics_covered = {}

\* C15: within one session 0 <= cursor <= N always, and the cursor never
\* decreases; once cursor = N no submit, skip, advance or bookmark toggle is
\* possible, and the only change of the session is the start of a new quiz.
C15_CursorBoundedMonotone ==
    /\ [](showing_quiz =>
             current_question >= 0 /\ current_question <= Len(quiz_questions))
    /\ [](Completed =>
             /\ buttons = {"new_quiz_button"}
             /\ ~ENABLED (Submit \/ SkipQuestion \/ SkipAfterBookmark \/ NextQuestion
                          \/ Bookmark \/ ToggleBookmark))
    /\ [][(showing_quiz /\ showing_quiz') =>
              /\ quiz_questions' = quiz_questions
              /\ current_question' >= current_question]_vars
    /\ [][(Completed /\ <<quiz_questions, current_question, showing_quiz, score,
                          answered_questions>>'
                        # <<quiz_questions, current_question, showing_quiz, score,
                            answered_questions>>) =>
              /\ ~showing_quiz'
              /\ quiz_questions' = <<>>
              /\ current_question' = 0
              /\ score' = 0
              /\ answered_questions' = EmptyDict]_vars

\* a quiz of two questions completed by an answer and a skip
C15_Witness ==
    /\ Completed
    /\ Len(quiz_questions) = 2
    /\ current_question = 2
    /\ IsAnswered(answered_questions[0])
    /\ IsSkipped(answered_questions[1])

\* C16: "Next Question" is enabled only when the current question is
\* answered, and the cursor otherwise moves only by a skip; so every question
\* below the cursor is answered or skipped, and only the question at the
\* cursor may still be unanswered or bookmarked-only.
C16_AdvanceOnlyWhenAnswered ==
    /\ []((InProgress /\ ("next" \in buttons \/ ENABLED NextQuestion)) =>
             /\ HasEntry(current_question)
             /\ IsAnswered(answered_questions[current_question]))
    /\ [](showing_quiz =>
             \A i \in Indices :
                 /\ i < current_question => Finalized(i)
                 /\ i > current_question => ~HasEntry(i))
    /\ [][(showing_quiz /\ showing_quiz' /\ current_question' # current_question) =>
              /\ current_question' = current_question + 1
              /\ \/ BecomesSkipped(current_question)
                 \/ /\ HasEntry(current_question)
                    /\ IsAnswered(answered_questions[current_question])
                    /\ answered_questions' = answered_questions]_vars

\* the first question was answered and left; the second is bookmarked only
C16_Witness ==
    /\ InProgress
    /\ current_question = 1
    /\ IsAnswered(answered_questions[0])
    /\ HasEntry(1)
    /\ IsBookmarked(answered_questions[1])
    /\ Unanswered(1)

\* C17: every question generate_quiz returns has exactly 4 answer choices and
\* a correct-choice index i with 0 <= i < 4, whatever array of objects the
\* provider wrote.
C17_FourChoicesValidIndex ==
    Called =>
        \A i \in 1..Len(quiz_result.ret) :
            /\ Len(quiz_result.ret[i].d["answers"]) = 4
            /\ quiz_result.ret[i].d["correctAnswer"] \in 0..3

\* the question objects of the parser's inputs that are complete records:
\* four choices, and an explanation that is absent or structured
StructuredQuestions ==
    {e \in ParserElements :
        /\ e.type = "dict"
        /\ Len(e.d["answers"]) = 4
        /\ "explanation" \in DOMAIN e.d => e.d["explanation"].type = "dict"}

\* the returned sequence is the array, element by element
ReturnsArray(ret, array) ==
    /\ Len(ret) = Len(array)
    /\ \A i \in 1..Len(array) :
           /\ ret[i].d["question"] = array[i].d["question"]
           /\ ret[i].d["answers"] = array[i].d["answers"]
           /\ ret[i].d["correctAnswer"] = array[i].d["correctAnswer"]

\* C18: with the fence markers removed, the candidate is the text from the
\* first "[" to the last "]"; for every text made of commentary, a valid
\* array of question objects and commentary again, fenced or not, the
\* returned sequence is that array; without a "[" or without a "]" after the
\* first "[" the result is empty.
C18_CandidateFirstToLastBracket ==
    (Called /\ provider_response.kind = "text") =>
        /\ Candidate(provider_response.text) = <<>> => quiz_result.ret = <<>>
        /\ (ParsesAsArray /\ \A i \in 1..Len(ParsedElements) :
                                 ParsedElements[i] \in StructuredQuestions) =>
               ReturnsArray(quiz_result.ret, ParsedElements)
        /\ \A array \in SeqsUpTo(StructuredQuestions, MaxQuestions) :
               /\ \A p \in NoisePairs :
                      provider_response.text = p[1] \o ArrayText(array) \o p[2] =>
                          ReturnsArray(quiz_result.ret, array)
               /\ provider_response.text
                      = <<Word, Space, FenceJson, Space>> \o ArrayText(array) \o <<Space, Fence>>
                  => ReturnsArray(quiz_result.ret, array)

\* the questions of the session that are in state answered
NumAnswered(answers) ==
    Cardinality({i \in DOMAIN answers : IsAnswered(answers[i])})

\* C19: within one session each question is one graded event at most: the
\* total-solved counter and the ledger total of the session's topic grow with
\* the number of answered questions and with nothing else (a skip or a
\* bookmark adds 0), starting from no answered question, so that a session
\* of N questions adds N at most.
C19_OneGradedEventPerQuestion ==
    /\ [](showing_quiz =>
             NumAnswered(answered_questions) <= Len(quiz_questions))
    /\ [][(~showing_quiz /\ showing_quiz') =>
              /\ NumAnswered(answered_questions') = 0
              /\ total_questions_solved' = total_questions_solved
              /\ topic_performance' = topic_performance]_vars
    /\ [][(showing_quiz /\ showing_quiz') =>
              LET grown == NumAnswered(answered_questions')
                               - NumAnswered(answered_questions)
              IN  /\ grown \in {0, 1}
                  /\ total_questions_solved' = total_questions_solved + grown
                  /\ EntryOf(topic_performance', current_quiz_main_topic).total_solved
                         = EntryOf(topic_performance, current_quiz_main_topic).total_solved
                           + grown
                  /\ \A t \in DOMAIN topic_performance' \ {current_quiz_main_topic} :
                         /\ t \in DOMAIN topic_performance
                         /\ topic_performance'[t] = topic_performance[t]]_vars

\* a completed quiz of two questions, one answered and one bookmarked and
\* skipped, has added 1
C19_Witness ==
    /\ Completed
    /\ Len(quiz_questions) = 2
    /\ IsAnswered(answered_questions[0])
    /\ IsSkipped(answered_questions[1])
    /\ IsBookmarked(answered_questions[1])
    /\ total_questions_solved = 1
    /\ DOMAIN topic_performance = {current_quiz_main_topic}
    /\ topic_performance[current_quiz_main_topic].total_solved = 1

\* the store holds an entry with the (question text, quiz topic) of entry e
HoldsPair(store, e) ==
    \E i \in 1..Len(store) :
        /\ store[i].d["question"] = e.d["question"]
        /\ store[i].d["quiz_topic"] = e.d["quiz_topic"]

\* C20: after every removal for a (question text, topic), by the unbookmark
\* of the quiz or by "Remove Bookmark" of the profile, the store holds no
\* entry with that pair, also when several entries with it had accumulated.
C20_RemoveDeletesEveryMatch ==
    /\ [][Unbookmarks => ~HoldsPair(bookmarked_questions', question_with_meta)]_vars
    /\ [][\A idx \in 0..(Len(bookmarked_questions) - 1) :
              RemoveBookmark(idx) =>
                  ~HoldsPair(bookmarked_questions', bookmarked_questions[idx + 1])]_vars

\* the number of consecutive days marked true in the history, ending at day d
RECURSIVE ConsecutiveDays(_, _)
ConsecutiveDays(history, d) ==
    IF d \in DOMAIN history /\ history[d]
    THEN 1 + ConsecutiveDays(history, d - 1)
    ELSE 0

\* C21: when a completion was recorded, CurrentStreak is at least 1 and equals
\* the number of consecutive days marked true in StreakHistory that end at the
\* most recent completion date, which is the latest day of the history; when
\* none was recorded, CurrentStreak is 0 and StreakHistory is empty.
C21_StreakCountsConsecutiveDays ==
    IF last_quiz_date = None
    THEN current_streak = 0 /\ streak_history = EmptyDict
    ELSE /\ current_streak >= 1
         /\ current_streak = ConsecutiveDays(streak_history, last_quiz_date[1])
         /\ last_quiz_date[1] \in DOMAIN streak_history
         /\ \A d \in DOMAIN streak_history : d <= last_quiz_date[1]

\* completions on days 0, 2 and 3: the run that ends at day 3 has 2 days
C21_Witness ==
    /\ DOMAIN streak_history = {0, 2, 3}
    /\ last_quiz_date = Some(3)
    /\ current_streak = 2

(***************************************************************************)
(* profile_module: the accuracy shown on a topic's tag.                    *)
(***************************************************************************)
RECURSIVE gcd(_, _)
gcd(a, b) == IF b = 0 THEN a ELSE gcd(b, a % b)

\* the number n / d in lowest terms
Ratio(n, d) == [num |-> n \div gcd(n, d), den |-> d \div gcd(n, d)]

\* the percentage and the colour of the tag of one covered topic
accuracy(topic) ==
    LET performance == Get(topic_performance, topic,
                           [total_solved |-> 0, correct_solved |-> 0])
        total == performance.total_solved
        correct == performance.correct_solved
        percentage == IF total > 0 THEN Ratio(correct * 100, total) ELSE Ratio(0, 1)
    IN  [percentage |-> percentage,
         color |-> IF total > 0
                   THEN IF percentage.num >= 75 * percentage.den THEN "green"
                        ELSE IF percentage.num >= 50 * percentage.den THEN "orange"
                        ELSE "red"
                   ELSE "var(--text-color)"]

\* C22: the accuracy of a topic with total = 0, a covered topic without a
\* ledger entry included, is a value that differs from the accuracy of every
\* topic with total > 0 and correct = 0; for total > 0 the accuracy is
\* correct / total, and total = 2 with correct = 1 gives 50%.
C22_AccuracySentinel ==
    /\ \A t \in topics_covered \cup DOMAIN topic_performance :
           EntryOf(topic_performance, t).total_solved > 0 =>
               /\ accuracy(t).percentage.num * EntryOf(topic_performance, t).total_solved
                      = 100 * EntryOf(topic_performance, t).correct_solved
                        * accuracy(t).percentage.den
               /\ EntryOf(topic_performance, t) = [total_solved |-> 2, correct_solved |-> 1]
                      => accuracy(t).percentage = Ratio(50, 1)
    /\ \A t \in topics_covered, u \in DOMAIN topic_performance :
           (/\ EntryOf(topic_performance, t).total_solved = 0
            /\ topic_performance[u].total_solved > 0
            /\ topic_performance[u].correct_solved = 0)
           => accuracy(t).percentage # accuracy(u).percentage

(***************************************************************************)
(* The "Generate Quiz" form with the outcome of generate_quiz kept, in a   *)
(* session with answers, bookmarks and completed quizzes.                  *)
(***************************************************************************)
GeneratorResponses ==
    {ProviderException,
     ProviderText(<<Word>>),
     ProviderText(<<LBracket, Word, RBracket>>)}
    \cup {ProviderText(ArrayText(es)) : es \in SeqsUpTo({Q1}, MaxQuestions)}

\* "Generate Quiz" on the response received, the response and the outcome of
\* generate_quiz kept for inspection
SubmitQuizForm(topic, response) ==
    /\ display_quiz_generator(topic, response)
    /\ provider_response' = response
    /\ quiz_result' = generate_quiz(response)
    /\ UNCHANGED pdf_result

NextGenerator ==
    \/ \E topic \in {"optics", "kinematics"}, response \in GeneratorResponses :
           SubmitQuizForm(topic, response)
    \/ Bookmark
    \/ Submit
    \/ SkipQuestion
    \/ NextQuestion
    \/ StartNewQuiz

SpecGenerator == Init /\ [][NextGenerator]_vars

\* the generation on this response fails: the provider raised, the output has
\* no candidate or one that is not valid JSON, or the array is empty
GenerationFails(response) ==
    \/ response.kind = "exception"
    \/ Candidate(response.text) = <<>>
    \/ ~json_loads(Candidate(response.text)).ok
    \/ json_loads(Candidate(response.text)).v.items = <<>>

\* C23: a "Generate Quiz" whose generation fails (provider exception,
\* unparseable output, empty array) starts no session and leaves the cursor,
\* the score, the answer states, total-solved, total-correct, the ledger,
\* topics-covered, the quiz topic, the streak state and the BookmarkStore
\* unchanged.
C23_FailedGenerationChangesNothing ==
    [][\A topic \in {"optics", "kinematics"}, response \in GeneratorResponses :
          (SubmitQuizForm(topic, response) /\ GenerationFails(response)) =>
              /\ quiz_result'.ret = <<>>
              /\ ~showing_quiz'
              /\ UNCHANGED <<current_question, score, answered_questions,
                             total_questions_solved, total_correct_answers,
                             topic_performance, topics_covered,
                             current_quiz_main_topic, streakVars,
                             bookmarked_questions>>]_vars

\* after a completed optics quiz with a bookmark and an answer, a generation
\* on kinematics met a provider failure
C23_Witness ==
    /\ provider_response = ProviderException
    /\ quiz_result.ret = <<>>
    /\ quiz_result.diag = "Error generating quiz"
    /\ ~showing_quiz
    /\ topics_covered = {"optics"}
    /\ current_quiz_main_topic = "optics"
    /\ total_questions_solved = 1
    /\ current_streak = 1
    /\ Len(bookmarked_questions) = 1

\* the store holds an entry with the text of question i and the session's topic
Stored(i) ==
    \E k \in 1..Len(bookmarked_questions) :
        /\ bookmarked_questions[k].d["question"] = quiz_questions[i + 1].d["question"]
        /\ bookmarked_questions[k].d["quiz_topic"] = current_quiz_main_topic

\* C24: while a session is shown, question i is flagged bookmarked in its
\* AnswerState if and only if the BookmarkStore holds an entry with the text
\* of question i and the session's topic, whatever bookmark toggles, profile
\* removals and sessions with repeated question texts came before.
C24_FlagMatchesStore ==
    showing_quiz => \A i \in Indices : Flag(answered_questions, i) <=> Stored(i)

\* the questions of the session that hold an answer marked correct
CorrectlyAnswered ==
    {i \in DOMAIN answered_questions :
         /\ IsAnswered(answered_questions[i])
         /\ answered_questions[i]["is_correct"]}

\* C25: in a session the running score is the number of questions answered
\* with is_correct true, score <= number of answered questions <= N, and a
\* skipped question has no selected index and is_correct false.
C25_ScoreCountsCorrectAnswers ==
    showing_quiz =>
        /\ score = Cardinality(CorrectlyAnswered)
        /\ score <= NumAnswered(answered_questions)
        /\ NumAnswered(answered_questions) <= Len(quiz_questions)
        /\ \A i \in DOMAIN answered_questions :
               IsSkipped(answered_questions[i]) =>
                   /\ answered_questions[i]["selected_idx"] = None
                   /\ answered_questions[i]["is_correct"] = FALSE

\* a right answer, then a wrong answer on a question bookmarked first
C25_Witness ==
    /\ showing_quiz
    /\ Len(quiz_questions) = 2
    /\ DOMAIN answered_questions = {0, 1}
    /\ IsAnswered(answered_questions[0]) /\ answered_questions[0]["is_correct"]
    /\ IsAnswered(answered_questions[1]) /\ ~answered_questions[1]["is_correct"]
    /\ IsBookmarked(answered_questions[1])
    /\ score = 1

\* C26: after any sequence of quiz submits and document analyses,
\* total_correct_answers <= total_questions_solved, and every topic of the
\* ledger has correct_solved <= total_solved.
C26_CorrectAtMostSolved ==
    /\ total_correct_answers <= total_questions_solved
    /\ \A t \in DOMAIN topic_performance :
           topic_performance[t].correct_solved <= topic_performance[t].total_solved

\* C27: a skip of the current question sets that question's AnswerState to
\* skipped and moves the cursor, and nothing else of the session: the score,
\* total-solved, total-correct, the ledger, the answer states of all other
\* questions and the BookmarkStore are unchanged, and the question's
\* bookmarked flag keeps the value it had.
C27_SkipFrame ==
    [][(SkipQuestion \/ SkipAfterBookmark) =>
          /\ IsSkipped(answered_questions'[current_question])
          /\ ~IsAnswered(answered_questions'[current_question])
          /\ current_question' = current_question + 1
          /\ UNCHANGED <<score, total_questions_solved, total_correct_answers,
                         topic_performance, bookmarked_questions>>
          /\ DOMAIN answered_questions' = DOMAIN answered_questions \cup {current_question}
          /\ \A j \in DOMAIN answered_questions \ {current_question} :
                 answered_questions'[j] = answered_questions[j]
          /\ Flag(answered_questions', current_question)
                 = Flag(answered_questions, current_question)]_vars

\* the first question was answered and bookmarked, the second one was
\* bookmarked and then skipped
C27_Witness ==
    /\ showing_quiz
    /\ current_question = 2
    /\ DOMAIN answered_questions = {0, 1}
    /\ IsAnswered(answered_questions[0]) /\ IsBookmarked(answered_questions[0])
    /\ IsSkipped(answered_questions[1]) /\ IsBookmarked(answered_questions[1])
    /\ Len(bookmarked_questions) = 2
    /\ total_questions_solved = 1

\* C28: a submit keeps the bookmark of the question as it was: a question
\* bookmarked before it is answered stays flagged and the BookmarkStore is
\* unchanged, a question that is not bookmarked stays unflagged; in both cases
\* the answer states of all other questions and the ledger entries of all
\* other topics are unchanged.
C28_SubmitFrame ==
    [][\A choice \in 0..3 :
          (SubmitAnswer(choice) \/ SubmitAfterBookmark(choice)) =>
              /\ IsAnswered(answered_questions'[current_question])
              /\ Flag(answered_questions, current_question) =>
                     /\ Flag(answered_questions', current_question)
                     /\ bookmarked_questions' = bookmarked_questions
              /\ ~Flag(answered_questions, current_question) =>
                     ~Flag(answered_questions', current_question)
              /\ DOMAIN answered_questions' =
                     DOMAIN answered_questions \cup {current_question}
              /\ \A j \in DOMAIN answered_questions \ {current_question} :
                     answered_questions'[j] = answered_questions[j]
              /\ DOMAIN topic_performance' =
                     DOMAIN topic_performance \cup {current_quiz_main_topic}
              /\ \A t \in DOMAIN topic_performance \ {current_quiz_main_topic} :
                     topic_performance'[t] = topic_performance[t]]_vars

\* in a kinematics quiz the question was bookmarked and then answered, while
\* the ledger holds an optics entry from an earlier quiz
C28_Witness ==
    /\ showing_quiz
    /\ current_quiz_main_topic = "kinematics"
    /\ HasEntry(0)
    /\ IsAnswered(answered_questions[0])
    /\ IsBookmarked(answered_questions[0])
    /\ Len(bookmarked_questions) = 1
    /\ bookmarked_questions[1].d["quiz_topic"] = "kinematics"
    /\ DOMAIN topic_performance = {"optics", "kinematics"}

====
